---- MODULE Spec2Model ----
(***************************************************************************)
(* Model of src/assistant/utils.py: deduplicate_and_format_sources and     *)
(* format_sources.  Python values are tagged records, text is a sequence   *)
(* of one-character strings, and the two loops of                          *)
(* deduplicate_and_format_sources advance one iteration per step.          *)
(***************************************************************************)
EXTENDS Integers, Sequences, FiniteSets, TLC

VARIABLES
    pc,                     \* position in the called function
    search_response,        \* argument: the caller's object
    max_tokens_per_source,  \* argument
    include_raw_content,    \* argument
    sources_list,           \* flattened records (line 34 / 36-41)
    unique_sources,         \* values of the dedup dict, in insertion order
    i,                      \* position of the running for loop
    formatted_text,         \* the text built by lines 52-67
    stdout,                 \* lines written by print
    ret                     \* returned string or raised exception

vars == << pc, search_response, max_tokens_per_source, include_raw_content,
           sources_list, unique_sources, i, formatted_text, stdout, ret >>

----------------------------------------------------------------------------
(* Bounds of the explored inputs *)

MaxRecords == 3
MaxResponses == 2
MaxRawLen == 42

----------------------------------------------------------------------------
(* Python values *)

PyNone == [type |-> "NoneType"]
PyStr(s) == [type |-> "str", val |-> s]
PyInt(n) == [type |-> "int", val |-> n]
PyList(s) == [type |-> "list", val |-> s]
PyDict(f) == [type |-> "dict", val |-> f]

NoValue == [type |-> "unset"]
Returned(text) == [type |-> "str", val |-> text]
Raised(e) == [type |-> "exception", val |-> e]

IsDict(v) == v.type = "dict"
IsList(v) == v.type = "list"
HasKey(v, k) == k \in DOMAIN v.val

----------------------------------------------------------------------------
(* String literals of the source, one character per element *)

SourcesHeader ==
    << "S", "o", "u", "r", "c", "e", "s", ":", "\n", "\n" >>
SourcePrefix ==
    << "S", "o", "u", "r", "c", "e", " " >>
TitleSuffix ==
    << ":", "\n", "=", "=", "=", "\n" >>
UrlPrefix ==
    << "U", "R", "L", ":", " " >>
Separator ==
    << "\n", "=", "=", "=", "\n" >>
ContentPrefix ==
    << "M", "o", "s", "t", " ", "r", "e", "l", "e", "v", "a", "n", "t", " ",
       "c", "o", "n", "t", "e", "n", "t", " ", "f", "r", "o", "m", " ",
       "s", "o", "u", "r", "c", "e", ":", " " >>
FullPrefix ==
    << "F", "u", "l", "l", " ", "s", "o", "u", "r", "c", "e", " ",
       "c", "o", "n", "t", "e", "n", "t", " ", "l", "i", "m", "i", "t", "e", "d",
       " ", "t", "o", " " >>
TokensInfix ==
    << " ", "t", "o", "k", "e", "n", "s", ":", " " >>
BlockEnd ==
    << "\n", "\n" >>
TruncatedMarker ==
    << ".", ".", ".", " ", "[", "t", "r", "u", "n", "c", "a", "t", "e", "d", "]" >>
WarningPrefix ==
    << "W", "a", "r", "n", "i", "n", "g", ":", " ", "N", "o", " ",
       "r", "a", "w", "_", "c", "o", "n", "t", "e", "n", "t", " ",
       "f", "o", "u", "n", "d", " ", "f", "o", "r", " ",
       "s", "o", "u", "r", "c", "e", " " >>
BulletPrefix ==
    << "*", " " >>
BulletInfix ==
    << " ", ":", " " >>
NewLine ==
    << "\n" >>

----------------------------------------------------------------------------
(* Built-in string operations used by the source *)

Min(a, b) == IF a < b THEN a ELSE b
Max(a, b) == IF a > b THEN a ELSE b

DigitChar == << "0", "1", "2", "3", "4", "5", "6", "7", "8", "9" >>

RECURSIVE Digits(_)
Digits(n) ==
    IF n < 10 THEN << DigitChar[n + 1] >>
    ELSE Digits(n \div 10) \o << DigitChar[(n % 10) + 1] >>

\* f"{n}" for an int
IntToStr(n) == IF n < 0 THEN << "-" >> \o Digits(0 - n) ELSE Digits(n)

\* s[:n], negative n counting from the end
SliceTo(s, n) ==
    IF n >= 0 THEN SubSeq(s, 1, Min(n, Len(s)))
    ELSE SubSeq(s, 1, Max(Len(s) + n, 0))

IsSpace(c) == c \in {" ", "\n", "\t", "\r"}

RECURSIVE LStrip(_)
LStrip(s) ==
    IF s # << >> /\ IsSpace(Head(s)) THEN LStrip(Tail(s)) ELSE s

RECURSIVE RStrip(_)
RStrip(s) ==
    IF s # << >> /\ IsSpace(s[Len(s)]) THEN RStrip(SubSeq(s, 1, Len(s) - 1))
    ELSE s

\* str.strip()
Strip(s) == LStrip(RStrip(s))

\* sep.join(parts)
RECURSIVE Join(_, _)
Join(sep, parts) ==
    IF parts = << >> THEN << >>
    ELSE IF Len(parts) = 1 THEN parts[1]
    ELSE parts[1] \o sep \o Join(sep, Tail(parts))

\* iteration order of a dict's keys; the dicts iterated here have at most
\* one key
RECURSIVE KeysOf(_)
KeysOf(ks) ==
    IF ks = {} THEN << >>
    ELSE LET k == CHOOSE x \in ks : TRUE
         IN << PyStr(k) >> \o KeysOf(ks \ {k})

----------------------------------------------------------------------------
(* deduplicate_and_format_sources, lines 33-43 *)

\* list.extend(v): the items v yields, or the TypeError of a non-iterable
Iterate(v) ==
    CASE v.type = "list" -> [exc |-> "", val |-> v.val]
      [] v.type = "dict" -> [exc |-> "", val |-> KeysOf(DOMAIN v.val)]
      [] v.type = "str" -> [exc |-> "", val |-> [k \in 1..Len(v.val) |-> PyStr(<< v.val[k] >>)]]
      [] OTHER -> [exc |-> "TypeError", val |-> << >>]

\* variant: line 38 without its test, every element is extended by as it is
Contribution_NoResultsTest(response) ==
    Iterate(response)

\* variant: lines 40-41 missing, an element without results adds nothing
Contribution_SkipBare(response) ==
    IF IsDict(response) /\ HasKey(response, "results")
    THEN Iterate(response.val.results)
    ELSE [exc |-> "", val |-> << >>]

\* one pass of the loop body of lines 37-41
Contribution(response) ==
    IF IsDict(response) /\ HasKey(response, "results")
    THEN Iterate(response.val.results)
    ELSE Iterate(response)

RECURSIVE ExtendAll(_)
ExtendAll(responses) ==
    IF responses = << >> THEN [exc |-> "", val |-> << >>]
    ELSE LET c == Contribution(Head(responses))
         IN IF c.exc # "" THEN c
            ELSE LET rest == ExtendAll(Tail(responses))
                 IN IF rest.exc # "" THEN rest
                    ELSE [exc |-> "", val |-> c.val \o rest.val]

Flatten(sr) ==
    IF IsDict(sr)
    THEN IF HasKey(sr, "results")
         THEN [exc |-> "", val |-> sr.val.results.val]
         ELSE [exc |-> "KeyError", val |-> << >>]
    ELSE IF IsList(sr)
    THEN ExtendAll(sr.val)
    ELSE [exc |-> "ValueError", val |-> << >>]

----------------------------------------------------------------------------
(* deduplicate_and_format_sources, lines 46-49 *)

\* source[key]
Subscript(source, key) ==
    IF ~IsDict(source) THEN [exc |-> "TypeError"]
    ELSE IF ~HasKey(source, key) THEN [exc |-> "KeyError"]
    ELSE [exc |-> "", val |-> source.val[key]]

UrlPresent(unique, url) ==
    \E k \in 1..Len(unique) : unique[k].val.url = url

\* variant: the assignment of line 49 without the test of line 48
DedupInsert_LastWins(unique, source) ==
    LET u == Subscript(source, "url")
    IN IF u.exc # "" THEN [exc |-> u.exc, val |-> unique]
       ELSE IF ~UrlPresent(unique, u.val)
       THEN [exc |-> "", val |-> Append(unique, source)]
       ELSE [exc |-> "",
             val |-> [k \in 1..Len(unique) |->
                        IF unique[k].val.url = u.val THEN source ELSE unique[k]]]

\* loop body of lines 47-49
DedupInsert(unique, source) ==
    LET u == Subscript(source, "url")
    IN IF u.exc # "" THEN [exc |-> u.exc, val |-> unique]
       ELSE IF ~UrlPresent(unique, u.val)
       THEN [exc |-> "", val |-> Append(unique, source)]
       ELSE [exc |-> "", val |-> unique]

----------------------------------------------------------------------------
(* deduplicate_and_format_sources, lines 53-67 *)

\* source.get('raw_content', '')
GetRawContent(source) ==
    IF HasKey(source, "raw_content") THEN source.val.raw_content
    ELSE PyStr(<< >>)

\* variant: line 65 compares with >=
FormatRaw_Inclusive(source, max_tokens, out) ==
    LET char_limit == max_tokens * 4
        got == GetRawContent(source)
        isNone == got = PyNone
        raw_content == IF isNone THEN << >> ELSE got.val
        warn == IF isNone
                THEN << WarningPrefix \o source.val.url >>
                ELSE << >>
        emitted == IF Len(raw_content) >= char_limit
                   THEN SliceTo(raw_content, char_limit) \o TruncatedMarker
                   ELSE raw_content
    IN [exc |-> "",
        text |-> out \o FullPrefix \o IntToStr(max_tokens) \o TokensInfix
                     \o emitted \o BlockEnd,
        warn |-> warn]

\* variant: line 59 allows one character more
FormatRaw_LimitPlusOne(source, max_tokens, out) ==
    LET char_limit == max_tokens * 4 + 1
        got == GetRawContent(source)
        isNone == got = PyNone
        raw_content == IF isNone THEN << >> ELSE got.val
        warn == IF isNone
                THEN << WarningPrefix \o source.val.url >>
                ELSE << >>
        emitted == IF Len(raw_content) > char_limit
                   THEN SliceTo(raw_content, char_limit) \o TruncatedMarker
                   ELSE raw_content
    IN [exc |-> "",
        text |-> out \o FullPrefix \o IntToStr(max_tokens) \o TokensInfix
                     \o emitted \o BlockEnd,
        warn |-> warn]

\* variant: lines 62-64 missing, len(None) raises
FormatRaw_NoNoneCheck(source, max_tokens, out) ==
    LET char_limit == max_tokens * 4
        got == GetRawContent(source)
    IN IF got = PyNone
       THEN [exc |-> "TypeError", text |-> << >>, warn |-> << >>]
       ELSE [exc |-> "",
             text |-> out \o FullPrefix \o IntToStr(max_tokens) \o TokensInfix
                          \o (IF Len(got.val) > char_limit
                              THEN SliceTo(got.val, char_limit) \o TruncatedMarker
                              ELSE got.val)
                          \o BlockEnd,
             warn |-> << >>]

\* lines 59-67
FormatRaw(source, max_tokens, out) ==
    LET char_limit == max_tokens * 4
        got == GetRawContent(source)
        isNone == got = PyNone
        raw_content == IF isNone THEN << >> ELSE got.val
        warn == IF isNone
                THEN << WarningPrefix \o source.val.url >>
                ELSE << >>
        emitted == IF Len(raw_content) > char_limit
                   THEN SliceTo(raw_content, char_limit) \o TruncatedMarker
                   ELSE raw_content
    IN [exc |-> "",
        text |-> out \o FullPrefix \o IntToStr(max_tokens) \o TokensInfix
                     \o emitted \o BlockEnd,
        warn |-> warn]

\* loop body of lines 54-67: the text appended for one source and the
\* warnings printed
FormatSource(source, max_tokens, include_raw) ==
    LET t == Subscript(source, "title")
        u == Subscript(source, "url")
        c == Subscript(source, "content")
    IN IF t.exc # "" THEN [exc |-> t.exc, text |-> << >>, warn |-> << >>]
       ELSE IF u.exc # "" THEN [exc |-> u.exc, text |-> << >>, warn |-> << >>]
       ELSE IF c.exc # "" THEN [exc |-> c.exc, text |-> << >>, warn |-> << >>]
       ELSE LET head == SourcePrefix \o t.val \o TitleSuffix
                        \o UrlPrefix \o u.val \o Separator
                        \o ContentPrefix \o c.val \o Separator
            IN IF include_raw
               THEN FormatRaw(source, max_tokens, head)
               ELSE [exc |-> "", text |-> head, warn |-> << >>]

----------------------------------------------------------------------------
(* The whole call, as the composition of its loops *)

RECURSIVE DedupAll(_, _)
DedupAll(unique, sources) ==
    IF sources = << >> THEN [exc |-> "", val |-> unique]
    ELSE LET d == DedupInsert(unique, Head(sources))
         IN IF d.exc # "" THEN d ELSE DedupAll(d.val, Tail(sources))

RECURSIVE FormatAll(_, _, _, _)
FormatAll(text, unique, max_tokens, include_raw) ==
    IF unique = << >> THEN [exc |-> "", text |-> text]
    ELSE LET f == FormatSource(Head(unique), max_tokens, include_raw)
         IN IF f.exc # "" THEN [exc |-> f.exc, text |-> text]
            ELSE FormatAll(text \o f.text, Tail(unique), max_tokens, include_raw)

deduplicate_and_format_sources(sr, max_tokens, include_raw) ==
    LET n == Flatten(sr)
    IN IF n.exc # "" THEN Raised(n.exc)
       ELSE LET d == DedupAll(<< >>, n.val)
            IN IF d.exc # "" THEN Raised(d.exc)
               ELSE LET f == FormatAll(SourcesHeader, d.val, max_tokens, include_raw)
                    IN IF f.exc # "" THEN Raised(f.exc)
                       ELSE Returned(Strip(f.text))

----------------------------------------------------------------------------
(* format_sources, lines 80-83 *)

BulletLine(source) ==
    LET t == Subscript(source, "title")
        u == Subscript(source, "url")
    IN IF t.exc # "" THEN [exc |-> t.exc, text |-> << >>]
       ELSE IF u.exc # "" THEN [exc |-> u.exc, text |-> << >>]
       ELSE [exc |-> "", text |-> BulletPrefix \o t.val \o BulletInfix \o u.val]

RECURSIVE BulletLines(_)
BulletLines(sources) ==
    IF sources = << >> THEN [exc |-> "", val |-> << >>]
    ELSE LET b == BulletLine(Head(sources))
         IN IF b.exc # "" THEN [exc |-> b.exc, val |-> << >>]
            ELSE LET rest == BulletLines(Tail(sources))
                 IN IF rest.exc # "" THEN rest
                    ELSE [exc |-> "", val |-> << b.text >> \o rest.val]

\* variant: the bullet list is built from the deduplicated records
format_sources_Dedup(search_results) ==
    LET r == Subscript(search_results, "results")
    IN IF r.exc # "" THEN Raised(r.exc)
       ELSE LET it == Iterate(r.val)
            IN IF it.exc # "" THEN Raised(it.exc)
               ELSE LET d == DedupAll(<< >>, it.val)
                        ls == BulletLines(d.val)
                    IN IF d.exc # "" THEN Raised(d.exc)
                       ELSE IF ls.exc # "" THEN Raised(ls.exc)
                       ELSE Returned(Join(NewLine, ls.val))

format_sources(search_results) ==
    LET r == Subscript(search_results, "results")
    IN IF r.exc # "" THEN Raised(r.exc)
       ELSE LET it == Iterate(r.val)
            IN IF it.exc # "" THEN Raised(it.exc)
               ELSE LET ls == BulletLines(it.val)
                    IN IF ls.exc # "" THEN Raised(ls.exc)
                       ELSE Returned(Join(NewLine, ls.val))

----------------------------------------------------------------------------
(* Inputs *)

Alphabet == << "a", "b", "c", "d", "e", "f", "g" >>

\* "abcdefgabc..." of length n
PatternStr(n) == [k \in 1..n |-> Alphabet[((k - 1) % Len(Alphabet)) + 1]]

Record(title, url, content) ==
    PyDict([title |-> title, url |-> url, content |-> content])

RecordRaw(title, url, content, raw) ==
    PyDict([title |-> title, url |-> url, content |-> content, raw_content |-> raw])

\* records of the shape arxiv_search builds (lines 131-146), and the two
\* shapes without raw text
SourcePool ==
    { RecordRaw(<< "A" >>, << "u", "1" >>, << "c", "1" >>, PyStr(PatternStr(5))),
      Record(<< "B" >>, << "u", "1" >>, << "c", "2" >>),
      RecordRaw(<< "C" >>, << "u", "2" >>, << "c", "1" >>, PyNone),
      RecordRaw(<< "D" >>, << "u", "2" >>, << "c", "2", " " >>, PyStr(<< "a", "b", " " >>)) }

RawContents ==
    { PyNone, PyStr(<< "a", "b", " " >>) } \cup { PyStr(PatternStr(n)) : n \in 0..MaxRawLen }

TokenBudgets == { 0 - 1, 0, 1, 10 }

\* a record that breaks the caller contract: a field is missing
MalformedSources ==
    { PyDict([url |-> << "u", "1" >>, content |-> << "c", "1" >>]),
      PyDict([title |-> << "A" >>, content |-> << "c", "1" >>]),
      PyDict([title |-> << "A" >>, url |-> << "u", "1" >>]) }

Response(records) == PyDict([results |-> PyList(records)])

\* what a list-form search_response may hold: a mapping with results, a
\* bare sequence of records, a mapping without results, an empty mapping,
\* a non-iterable
ElementKinds == { "response", "list", "noresults", "empty", "int" }

Element(kind, records) ==
    CASE kind = "response" -> Response(records)
      [] kind = "list" -> PyList(records)
      [] kind = "noresults" -> PyDict([query |-> PyStr(<< "q" >>)])
      [] kind = "empty" -> PyDict(<< >>)
      [] OTHER -> PyInt(7)

\* a list form is laid out as the kind and the number of records of each
\* element
Layouts(len) == [1..len -> ElementKinds \X (0..MaxRecords)]

RECURSIVE RecordsBefore(_, _)
RecordsBefore(layout, k) ==
    IF k <= 1 THEN 0
    ELSE RecordsBefore(layout, k - 1) + layout[k - 1][2]

RecordsIn(layout) == RecordsBefore(layout, Len(layout) + 1)

LayoutOK(layout) ==
    /\ \A k \in 1..Len(layout) :
          layout[k][1] \notin { "response", "list" } => layout[k][2] = 0
    /\ RecordsIn(layout) <= MaxRecords

\* the list of the layout, its elements sharing out records in order
ListForm(layout, records) ==
    PyList([k \in 1..Len(layout) |->
              Element(layout[k][1],
                      SubSeq(records,
                             RecordsBefore(layout, k) + 1,
                             RecordsBefore(layout, k) + layout[k][2]))])

\* shapes the function rejects or fails on
MalformedInputs ==
    { Response(<< m >>) : m \in MalformedSources }
    \cup { PyDict([query |-> PyStr(<< "q" >>)]), PyInt(7), PyNone }

\* one record, every raw text length around the limits
RawInputs ==
    { Response(<< Record(<< "A" >>, << "u", "1" >>, << "c", "1" >>) >>) }
    \cup { Response(<< RecordRaw(<< "A" >>, << "u", "1" >>, << "c", "1" >>, raw) >>)
           : raw \in RawContents }

----------------------------------------------------------------------------
(* State machine *)

Init ==
    /\ pc = "start"
    /\ \/ /\ search_response \in MalformedInputs
          /\ max_tokens_per_source = 1
       \/ /\ \E n \in 0..MaxRecords :
                \E records \in [1..n -> SourcePool] :
                    search_response = Response(records)
          /\ max_tokens_per_source = 1
       \/ /\ \E len \in 0..MaxResponses :
                \E layout \in Layouts(len) :
                    /\ LayoutOK(layout)
                    /\ \E records \in [1..RecordsIn(layout) -> SourcePool] :
                          search_response = ListForm(layout, records)
          /\ max_tokens_per_source = 1
       \/ /\ search_response \in RawInputs
          /\ max_tokens_per_source \in TokenBudgets
    /\ include_raw_content \in BOOLEAN
    /\ sources_list = << >>
    /\ unique_sources = << >>
    /\ i = 0
    /\ formatted_text = << >>
    /\ stdout = << >>
    /\ ret = NoValue

\* lines 33-43
Normalize ==
    /\ pc = "start"
    /\ LET n == Flatten(search_response)
       IN IF n.exc # ""
          THEN /\ pc' = "raised"
               /\ ret' = Raised(n.exc)
               /\ UNCHANGED << sources_list, i >>
          ELSE /\ pc' = "dedup"
               /\ sources_list' = n.val
               /\ i' = 1
               /\ UNCHANGED ret
    /\ UNCHANGED << search_response, max_tokens_per_source, include_raw_content,
                    unique_sources, formatted_text, stdout >>

\* lines 47-49, one iteration
DedupStep ==
    /\ pc = "dedup"
    /\ i <= Len(sources_list)
    /\ LET d == DedupInsert(unique_sources, sources_list[i])
       IN IF d.exc # ""
          THEN /\ pc' = "raised"
               /\ ret' = Raised(d.exc)
               /\ UNCHANGED << unique_sources, i >>
          ELSE /\ unique_sources' = d.val
               /\ i' = i + 1
               /\ UNCHANGED << pc, ret >>
    /\ UNCHANGED << search_response, max_tokens_per_source, include_raw_content,
                    sources_list, formatted_text, stdout >>

\* line 52, entered when the loop of line 47 is exhausted
StartFormat ==
    /\ pc = "dedup"
    /\ i > Len(sources_list)
    /\ formatted_text' = SourcesHeader
    /\ pc' = "format"
    /\ i' = 1
    /\ UNCHANGED << search_response, max_tokens_per_source, include_raw_content,
                    sources_list, unique_sources, stdout, ret >>

\* v with every record equal to source holding the empty raw text
RECURSIVE StoreEmptyRaw(_, _)
StoreEmptyRaw(v, source) ==
    IF v.type = "list"
    THEN PyList([k \in 1..Len(v.val) |-> StoreEmptyRaw(v.val[k], source)])
    ELSE IF v.type = "dict" /\ HasKey(v, "results")
    THEN PyDict([results |-> StoreEmptyRaw(v.val.results, source)])
    ELSE IF v.type = "dict" /\ HasKey(v, "raw_content") /\ v = source
    THEN PyDict([k \in DOMAIN v.val |->
                   IF k = "raw_content" THEN PyStr(<< >>) ELSE v.val[k]])
    ELSE v

\* variant: line 63 stores the empty string in the record it was read from
FormatStep_WriteBack ==
    /\ pc = "format"
    /\ i <= Len(unique_sources)
    /\ LET f == FormatSource(unique_sources[i], max_tokens_per_source, include_raw_content)
       IN IF f.exc # ""
          THEN /\ pc' = "raised"
               /\ ret' = Raised(f.exc)
               /\ UNCHANGED << formatted_text, stdout, i, search_response >>
          ELSE /\ formatted_text' = formatted_text \o f.text
               /\ stdout' = stdout \o f.warn
               /\ i' = i + 1
               /\ search_response' =
                      IF f.warn # << >>
                      THEN StoreEmptyRaw(search_response, unique_sources[i])
                      ELSE search_response
               /\ UNCHANGED << pc, ret >>
    /\ UNCHANGED << max_tokens_per_source, include_raw_content,
                    sources_list, unique_sources >>

\* lines 53-67, one iteration
FormatStep ==
    /\ pc = "format"
    /\ i <= Len(unique_sources)
    /\ LET f == FormatSource(unique_sources[i], max_tokens_per_source, include_raw_content)
       IN IF f.exc # ""
          THEN /\ pc' = "raised"
               /\ ret' = Raised(f.exc)
               /\ UNCHANGED << formatted_text, stdout, i >>
          ELSE /\ formatted_text' = formatted_text \o f.text
               /\ stdout' = stdout \o f.warn
               /\ i' = i + 1
               /\ UNCHANGED << pc, ret >>
    /\ UNCHANGED << search_response, max_tokens_per_source, include_raw_content,
                    sources_list, unique_sources >>

\* line 69
Return ==
    /\ pc = "format"
    /\ i > Len(unique_sources)
    /\ ret' = Returned(Strip(formatted_text))
    /\ pc' = "done"
    /\ UNCHANGED << search_response, max_tokens_per_source, include_raw_content,
                    sources_list, unique_sources, i, formatted_text, stdout >>

\* lines 80-83: the caller applies format_sources to the same object
FormatSources ==
    /\ pc = "start"
    /\ LET r == format_sources(search_response)
       IN /\ ret' = r
          /\ pc' = IF r.type = "exception" THEN "fs_raised" ELSE "fs_done"
    /\ UNCHANGED << search_response, max_tokens_per_source, include_raw_content,
                    sources_list, unique_sources, i, formatted_text, stdout >>

Next ==
    \/ Normalize
    \/ DedupStep
    \/ StartFormat
    \/ FormatStep
    \/ Return
    \/ FormatSources

Spec == Init /\ [][Next]_vars

----------------------------------------------------------------------------
(* Vocabulary of the properties *)

TypeOK ==
    /\ pc \in { "start", "dedup", "format", "done", "raised", "fs_done", "fs_raised" }
    /\ i \in 0..(Len(sources_list) + 1)

\* the records of s whose url does not occur at a smaller index, in order
FirstOccurrences(s) ==
    LET idx == { k \in 1..Len(s) : \A j \in 1..(k - 1) : s[j].val.url # s[k].val.url }
    IN [n \in 1..Cardinality(idx) |->
          s[CHOOSE k \in idx : Cardinality({ j \in idx : j <= k }) = n]]

\* the three lines every source block starts with
BlockHead(source) ==
    SourcePrefix \o source.val.title \o TitleSuffix
    \o UrlPrefix \o source.val.url \o Separator
    \o ContentPrefix \o source.val.content \o Separator

\* the labelled full-content block holding text
FullBlock(max_tokens, text) ==
    FullPrefix \o IntToStr(max_tokens) \o TokensInfix \o text \o BlockEnd

EndsWith(s, t) ==
    /\ Len(s) >= Len(t)
    /\ SubSeq(s, Len(s) - Len(t) + 1, Len(s)) = t

WellFormed(source) ==
    /\ IsDict(source)
    /\ { "title", "url", "content" } \subseteq DOMAIN source.val

HasRawText(source) ==
    /\ HasKey(source, "raw_content")
    /\ source.val.raw_content.type = "str"

RawAbsent(source) == ~HasKey(source, "raw_content")

RawNull(source) ==
    /\ HasKey(source, "raw_content")
    /\ source.val.raw_content = PyNone

\* the step formats unique_sources[i]
Formatting ==
    /\ pc = "format"
    /\ i <= Len(unique_sources)
    /\ WellFormed(unique_sources[i])

\* the record formatted by the last step
Formatted == unique_sources[i - 1]

JustFormatted ==
    /\ pc \in { "format", "done" }
    /\ i > 1
    /\ i <= Len(unique_sources) + 1
    /\ WellFormed(Formatted)

IsResponse(v) == IsDict(v) /\ HasKey(v, "results")

----------------------------------------------------------------------------
(* C1 *)

\* the blocks of records: the three lines of each, followed by what the
\* formatting of lines 57-67 adds to them
RECURSIVE BlocksOf(_, _, _)
BlocksOf(records, max_tokens, include_raw) ==
    IF records = << >> THEN << >>
    ELSE LET head == BlockHead(Head(records))
             whole == FormatSource(Head(records), max_tokens, include_raw).text
         IN head
            \o (IF include_raw THEN SubSeq(whole, Len(head) + 1, Len(whole)) ELSE << >>)
            \o BlocksOf(Tail(records), max_tokens, include_raw)

\* C1: when deduplicate_and_format_sources returns, the records kept are
\* the flattened records without those whose url occurred earlier, in
\* order of first occurrence, and the returned text is the header followed
\* by one block per kept record, carrying that record's title and content.
C1_FirstOccurrenceWins ==
    pc = "done" =>
        /\ unique_sources = FirstOccurrences(sources_list)
        /\ ret = Returned(Strip(SourcesHeader
                                \o BlocksOf(FirstOccurrences(sources_list),
                                            max_tokens_per_source,
                                            include_raw_content)))

C1_Witness ==
    /\ pc = "done"
    /\ Len(sources_list) = 3
    /\ Len(unique_sources) = 2
    /\ sources_list[1].val.url = sources_list[3].val.url
    /\ sources_list[1].val.title # sources_list[3].val.title
    /\ sources_list[1].val.content # sources_list[3].val.content
    /\ sources_list[2].val.url # sources_list[1].val.url

----------------------------------------------------------------------------
(* C2 *)

\* what the claim expects for raw text under a limit of 4 characters per token
TruncatedTo(raw, max_tokens) ==
    IF Len(raw) > max_tokens * 4
    THEN [k \in 1..(max_tokens * 4) |-> raw[k]] \o TruncatedMarker
    ELSE raw

----------------------------------------------------------------------------
(* C3 *)

\* C3 as stated: with max_tokens_per_source = 10, raw text of exactly 41
\* characters is appended whole and without the marker.
C3_FortyOneUntouched ==
    [][ ( /\ Formatting
          /\ include_raw_content
          /\ max_tokens_per_source = 10
          /\ HasRawText(unique_sources[i])
          /\ Len(unique_sources[i].val.raw_content.val) = 41 )
        => formatted_text' =
             formatted_text
             \o BlockHead(unique_sources[i])
             \o FullBlock(10, unique_sources[i].val.raw_content.val) ]_vars

\* C3 amended: with max_tokens_per_source = 10, raw text of exactly 40
\* characters is appended whole and without the marker, and raw text of
\* exactly 41 characters is appended as its first 40 characters followed by
\* the marker.
C3_FortyUntouched ==
    [][ ( /\ Formatting
          /\ include_raw_content
          /\ max_tokens_per_source = 10
          /\ HasRawText(unique_sources[i]) )
        => LET raw == unique_sources[i].val.raw_content.val
               out == SubSeq(formatted_text',
                             Len(formatted_text) + Len(BlockHead(unique_sources[i])) + 1,
                             Len(formatted_text'))
           IN /\ Len(raw) = 40 => out = FullBlock(10, raw)
              /\ Len(raw) = 41 =>
                    out = FullBlock(10, SubSeq(raw, 1, 40) \o TruncatedMarker) ]_vars

C3_Witness ==
    /\ JustFormatted
    /\ include_raw_content
    /\ max_tokens_per_source = 10
    /\ HasRawText(Formatted)
    /\ Len(Formatted.val.raw_content.val) = 41
    /\ EndsWith(formatted_text, TruncatedMarker \o BlockEnd)

----------------------------------------------------------------------------
(* C4 *)

\* C4: with include_raw_content and a positive max_tokens_per_source (the
\* argument's documented domain), the step that formats a record whose
\* raw_content is absent or null raises nothing and appends a full-content
\* block with empty text.
C4_MissingRawIsEmpty ==
    [][ ( /\ Formatting
          /\ include_raw_content
          /\ max_tokens_per_source > 0
          /\ (RawAbsent(unique_sources[i]) \/ RawNull(unique_sources[i])) )
        => /\ pc' = "format"
           /\ ret' = NoValue
           /\ formatted_text' =
                formatted_text
                \o BlockHead(unique_sources[i])
                \o FullBlock(max_tokens_per_source, << >>) ]_vars

\* a call that returned after formatting a null and an absent raw_content
C4_Witness ==
    /\ pc = "done"
    /\ include_raw_content
    /\ max_tokens_per_source > 0
    /\ \E j, k \in 1..Len(unique_sources) :
          /\ RawAbsent(unique_sources[j])
          /\ RawNull(unique_sources[k])

----------------------------------------------------------------------------
(* C5 *)

\* C5 as stated: the step that formats a record prints the warning naming
\* its url exactly when include_raw_content holds and the record's
\* raw_content is absent or null.
C5_WarnAbsentOrNull ==
    [][ Formatting
        => stdout' =
             IF /\ include_raw_content
                /\ (RawAbsent(unique_sources[i]) \/ RawNull(unique_sources[i]))
             THEN Append(stdout, WarningPrefix \o unique_sources[i].val.url)
             ELSE stdout ]_vars

----------------------------------------------------------------------------
(* C6 *)

ValidShape(v) ==
    \/ IsResponse(v)
    \/ /\ IsList(v)
       /\ \A k \in 1..Len(v.val) : IsResponse(v.val[k])

\* C6 as stated: a call whose search_response is neither a mapping with key
\* results nor a sequence of such mappings ends with ValueError.
C6_InvalidInputRaisesValueError ==
    (pc \in { "done", "raised" } /\ ~ValidShape(search_response))
        => ret = Raised("ValueError")

----------------------------------------------------------------------------
(* C7 *)

\* C7: when the call on a single mapping with key results returns, it
\* returns the string the call on the one-element list holding that mapping
\* returns, for the same max_tokens_per_source and include_raw_content.
C7_WrappedEqualsUnwrapped ==
    (pc = "done" /\ IsResponse(search_response))
        => ret = deduplicate_and_format_sources(PyList(<< search_response >>),
                                                max_tokens_per_source,
                                                include_raw_content)

C7_Witness ==
    /\ pc = "done"
    /\ IsResponse(search_response)
    /\ Len(search_response.val.results.val) >= 2
    /\ Len(unique_sources) < Len(sources_list)
    /\ include_raw_content

----------------------------------------------------------------------------
(* C8 *)

\* the lines of text, split at every newline
RECURSIVE SplitLines(_, _)
SplitLines(text, line) ==
    IF text = << >> THEN << line >>
    ELSE IF Head(text) = "\n" THEN << line >> \o SplitLines(Tail(text), << >>)
    ELSE SplitLines(Tail(text), Append(line, Head(text)))

\* C8: format_sources on a mapping whose results holds n records returns
\* the empty string when n = 0 and otherwise exactly n newline-separated
\* lines, line k being "* <title> : <url>" of the k-th record, repeated
\* urls included.
C8_BulletLines ==
    ( /\ pc \in { "fs_done", "fs_raised" }
      /\ IsResponse(search_response)
      /\ \A k \in 1..Len(search_response.val.results.val) :
            /\ HasKey(search_response.val.results.val[k], "title")
            /\ HasKey(search_response.val.results.val[k], "url") )
        => LET records == search_response.val.results.val
           IN /\ pc = "fs_done"
              /\ ret.type = "str"
              /\ IF records = << >> THEN ret.val = << >>
                 ELSE SplitLines(ret.val, << >>) =
                        [k \in 1..Len(records) |->
                            << "*", " " >> \o records[k].val.title
                            \o << " ", ":", " " >> \o records[k].val.url]

C8_Witness ==
    /\ pc = "fs_done"
    /\ IsResponse(search_response)
    /\ Len(search_response.val.results.val) = 3
    /\ search_response.val.results.val[1].val.url = search_response.val.results.val[3].val.url
    /\ search_response.val.results.val[1].val.title # search_response.val.results.val[3].val.title

----------------------------------------------------------------------------
(* C9 *)

\* what an element of a list-form search_response contributes
ItemsOf(e) ==
    IF IsResponse(e) THEN e.val.results.val
    ELSE IF IsList(e) THEN e.val
    ELSE IF IsDict(e) THEN KeysOf(DOMAIN e.val)
    ELSE << >>

RECURSIVE ItemsBefore(_, _)
ItemsBefore(responses, k) ==
    IF k <= 1 THEN 0
    ELSE ItemsBefore(responses, k - 1) + Len(ItemsOf(responses[k - 1]))

\* C9: once a list-form search_response is flattened, sources_list holds
\* the results of every element that is a mapping with key results and the
\* items of every other element, element after element in list order; and
\* when the call returns, the record kept for a url is the first one with
\* that url in the earliest element holding the url.
C9_FlattenInListOrder ==
    (pc \in { "dedup", "format", "done" } /\ IsList(search_response))
        => LET responses == search_response.val
           IN /\ Len(sources_list) = ItemsBefore(responses, Len(responses) + 1)
              /\ \A k \in 1..Len(responses) :
                    \A j \in 1..Len(ItemsOf(responses[k])) :
                        sources_list[ItemsBefore(responses, k) + j] = ItemsOf(responses[k])[j]
              /\ pc = "done" =>
                    LET Url(p) == ItemsOf(responses[p[1]])[p[2]].val.url
                        positions == { p \in (1..Len(responses)) \X (1..Len(sources_list)) :
                                          p[2] <= Len(ItemsOf(responses[p[1]])) }
                        first == { p \in positions :
                                      \A q \in positions :
                                          (q[1] < p[1] \/ (q[1] = p[1] /\ q[2] < p[2]))
                                              => Url(q) # Url(p) }
                    IN /\ Len(unique_sources) = Cardinality(first)
                       /\ \A p \in first :
                             \E n \in 1..Len(unique_sources) :
                                 unique_sources[n] = ItemsOf(responses[p[1]])[p[2]]

\* a bare sequence first and a mapping second, sharing a url
C9_Witness ==
    /\ pc = "done"
    /\ IsList(search_response)
    /\ Len(search_response.val) = 2
    /\ IsList(search_response.val[1])
    /\ IsResponse(search_response.val[2])
    /\ Len(search_response.val[1].val) = 1
    /\ Len(search_response.val[2].val.results.val) = 2
    /\ search_response.val[1].val[1].val.url = search_response.val[2].val.results.val[1].val.url
    /\ search_response.val[1].val[1] # search_response.val[2].val.results.val[1]
    /\ unique_sources[1] = search_response.val[1].val[1]
    /\ Len(unique_sources) = 2

----------------------------------------------------------------------------
(* C10 *)

\* C10: no step of deduplicate_and_format_sources changes search_response,
\* the results sequences or the records it holds.
C10_ArgumentUnchanged ==
    [][search_response' = search_response]_vars

\* a call that truncated one record, substituted the empty string for a
\* null raw_content and returned
C10_Witness ==
    /\ pc = "done"
    /\ include_raw_content
    /\ stdout # << >>
    /\ \E k \in 1..Len(unique_sources) :
          /\ HasRawText(unique_sources[k])
          /\ Len(unique_sources[k].val.raw_content.val) > max_tokens_per_source * 4

====
